---- MODULE Spec2Model ----
(***************************************************************************)
(* Model of three adapter pieces of home-assistant-core:                   *)
(*   - homeassistant/components/ws66i/coordinator.py                       *)
(*       Ws66iDataUpdateCoordinator: one poll of the configured zones,     *)
(*       run as an executor job and awaited from the event loop;           *)
(*   - homeassistant/components/nexia/entity.py                            *)
(*       NexiaEntity / NexiaThermostatEntity / NexiaThermostatZoneEntity:  *)
(*       construction, properties, dispatcher connections and signals;     *)
(*   - tests/components/google/conftest.py                                 *)
(*       FakeStorage: the single-slot credential store of the tests.       *)
(* Each piece has its own specification (SpecPoll, SpecNexia,              *)
(* SpecNexiaProps, SpecStorage) over the shared variables; a piece's       *)
(* actions leave the other pieces' variables unchanged.                    *)
(***************************************************************************)
EXTENDS Integers, Sequences, FiniteSets, TLC

VARIABLES
    \* ---- ws66i coordinator ----
    zones,        \* self._zones: the configured zone list
    pollPc,       \* _async_update_data on the event loop: idle / awaiting / done
    jobPc,        \* _update_all_zones as an executor job: none / queued / running / finished
    jobThread,    \* the thread the job runs on
    zi,           \* position of the for loop in self._zones (1-based)
    data,         \* the local list `data`
    calls,        \* history of this poll's vendor calls zone_status(zone_id)
    jobOutcome,   \* how _update_all_zones ended
    pollOutcome,  \* how the awaited _async_update_data ended
    \* ---- nexia entities ----
    ent,          \* entity objects: lifecycle and fields
    ctorArgs,     \* the arguments each entity was constructed with
    connections,  \* dispatcher: set of <<signal, entity>>, target = entity.async_write_ha_state
    sent,         \* the most recent dispatcher signal and its sender
    written,      \* entities whose async_write_ha_state ran for that signal
    \* ---- FakeStorage ----
    creds,        \* storage._creds
    puts,         \* history of put() arguments
    lastOp,       \* the most recent FakeStorage call
    got           \* what the most recent get() returned

pollVars == <<zones, pollPc, jobPc, jobThread, zi, data, calls, jobOutcome, pollOutcome>>
nexiaVars == <<ent, ctorArgs, connections, sent, written>>
storageVars == <<creds, puts, lastOp, got>>
vars == <<pollVars, nexiaVars, storageVars>>

\* Python's None, as returned by zone_status ("no data") and by an empty FakeStorage.
None == 0

--------------------------------------------------------------------------
\* Bounds of the model.
MaxZones == 3      \* longest configured zone list
MaxZoneId == 2     \* zone ids 1..MaxZoneId (so lists can repeat an id)
NumStatus == 2     \* distinct non-None ZoneStatus values the vendor may answer

ZoneIds == 1..MaxZoneId
ZoneStatus == 1..NumStatus

RECURSIVE SeqsUpTo(_, _)
SeqsUpTo(S, n) ==
    IF n = 0 THEN {<<>>}
    ELSE LET shorter == SeqsUpTo(S, n - 1)
         IN  shorter \cup {Append(s, x) : s \in {t \in shorter : Len(t) = n - 1}, x \in S}

--------------------------------------------------------------------------
\* ws66i: Ws66iDataUpdateCoordinator

NoOutcome == [kind |-> "none", data |-> <<>>, zone |-> None]
Returned(d) == [kind |-> "returned", data |-> d, zone |-> None]
\* raise UpdateFailed(f"Failed to update zone {zone_id}")
UpdateFailed(zone_id) == [kind |-> "raised", data |-> <<>>, zone |-> zone_id]

\* __init__: self._zones = zones; nothing is polled yet.
PollConstructed(zs) ==
    /\ zones = zs
    /\ pollPc = "idle"
    /\ jobPc = "none"
    /\ jobThread = "none"
    /\ zi = 1
    /\ data = <<>>
    /\ calls = <<>>
    /\ jobOutcome = NoOutcome
    /\ pollOutcome = NoOutcome

InitPoll == \E zs \in SeqsUpTo(ZoneIds, MaxZones) : PollConstructed(zs)

\* The thread of the event loop, on which coroutines run.
EventLoopThread == "MainThread"

\* hass.async_add_executor_job(target): target runs on an executor thread,
\* not on the event loop.
async_add_executor_job == "executor"

\* The thread _async_update_data has _update_all_zones run on:
\* self.hass.async_add_executor_job(self._update_all_zones)
UpdateAllZonesThread == async_add_executor_job

\* _async_update_data, up to its await: hands self._update_all_zones to the
\* executor.  The host starts one poll at a time (a new one after the last ended).
AsyncUpdateData ==
    /\ pollPc \in {"idle", "done"}
    /\ pollPc' = "awaiting"
    /\ jobPc' = "queued"
    /\ jobThread' = UpdateAllZonesThread
    /\ zi' = 1
    /\ data' = <<>>
    /\ calls' = <<>>
    /\ jobOutcome' = NoOutcome
    /\ pollOutcome' = NoOutcome
    /\ UNCHANGED <<zones, nexiaVars, storageVars>>

\* _update_all_zones starts: data = []
UpdateAllZonesBegin ==
    /\ jobPc = "queued"
    /\ jobPc' = "running"
    /\ data' = <<>>
    /\ zi' = 1
    /\ UNCHANGED <<zones, pollPc, jobThread, calls, jobOutcome, pollOutcome>>
    /\ UNCHANGED <<nexiaVars, storageVars>>

\* for zone_id in self._zones: the zi-th element
ZoneAt(i) == zones[i]

\* Variant: a None answer is appended like a status and the loop goes on.
ZoneQuery_PadNone ==
    /\ jobPc = "running"
    /\ zi <= Len(zones)
    /\ \E data_zone \in {None} \cup ZoneStatus :
        /\ calls' = Append(calls, [zone |-> ZoneAt(zi), ret |-> data_zone, thread |-> jobThread])
        /\ data' = Append(data, data_zone)
        /\ zi' = zi + 1
    /\ UNCHANGED <<zones, pollPc, jobPc, jobThread, jobOutcome, pollOutcome>>
    /\ UNCHANGED <<nexiaVars, storageVars>>

\* Variant: each status is put at the front of data.
ZoneQuery_Prepend ==
    /\ jobPc = "running"
    /\ zi <= Len(zones)
    /\ \E data_zone \in {None} \cup ZoneStatus :
        LET zone_id == ZoneAt(zi) IN
        /\ calls' = Append(calls, [zone |-> zone_id, ret |-> data_zone, thread |-> jobThread])
        /\ IF data_zone = None
           THEN /\ jobOutcome' = UpdateFailed(zone_id)
                /\ jobPc' = "finished"
                /\ UNCHANGED <<data, zi>>
           ELSE /\ data' = <<data_zone>> \o data
                /\ zi' = zi + 1
                /\ UNCHANGED <<jobOutcome, jobPc>>
    /\ UNCHANGED <<zones, pollPc, jobThread, pollOutcome>>
    /\ UNCHANGED <<nexiaVars, storageVars>>

\* Variant: a None answer is remembered and the remaining zones are still
\* queried; the failure is raised only once the loop is over.
ZoneQuery_RaiseLate ==
    /\ jobPc = "running"
    /\ zi <= Len(zones)
    /\ \E data_zone \in {None} \cup ZoneStatus :
        LET zone_id == ZoneAt(zi) IN
        /\ calls' = Append(calls, [zone |-> zone_id, ret |-> data_zone, thread |-> jobThread])
        /\ IF data_zone = None
           THEN /\ jobOutcome' = UpdateFailed(zone_id)
                /\ jobPc' = IF zi = Len(zones) THEN "finished" ELSE "running"
                /\ zi' = zi + 1
                /\ UNCHANGED data
           ELSE /\ data' = Append(data, data_zone)
                /\ zi' = zi + 1
                /\ jobPc' = IF jobOutcome.kind = "raised" /\ zi = Len(zones)
                            THEN "finished" ELSE "running"
                /\ UNCHANGED jobOutcome
    /\ UNCHANGED <<zones, pollPc, jobThread, pollOutcome>>
    /\ UNCHANGED <<nexiaVars, storageVars>>

\* One iteration of the for loop: the vendor answers None or a status.
ZoneQuery ==
    /\ jobPc = "running"
    /\ zi <= Len(zones)
    /\ \E data_zone \in {None} \cup ZoneStatus :
        LET zone_id == ZoneAt(zi) IN
        /\ calls' = Append(calls, [zone |-> zone_id, ret |-> data_zone, thread |-> jobThread])
        /\ IF data_zone = None
           THEN /\ jobOutcome' = UpdateFailed(zone_id)
                /\ jobPc' = "finished"
                /\ UNCHANGED <<data, zi>>
           ELSE /\ data' = Append(data, data_zone)
                /\ zi' = zi + 1
                /\ UNCHANGED <<jobOutcome, jobPc>>
    /\ UNCHANGED <<zones, pollPc, jobThread, pollOutcome>>
    /\ UNCHANGED <<nexiaVars, storageVars>>

\* the for loop is exhausted: return data
UpdateAllZonesReturn ==
    /\ jobPc = "running"
    /\ zi > Len(zones)
    /\ jobOutcome' = Returned(data)
    /\ jobPc' = "finished"
    /\ UNCHANGED <<zones, pollPc, jobThread, zi, data, calls, pollOutcome>>
    /\ UNCHANGED <<nexiaVars, storageVars>>

\* Variant: the await is missing; the coroutine returns without the job's end.
AsyncUpdateDataResume_NoAwait ==
    /\ pollPc = "awaiting"
    /\ pollOutcome' = jobOutcome
    /\ pollPc' = "done"
    /\ UNCHANGED <<zones, jobPc, jobThread, zi, data, calls, jobOutcome>>
    /\ UNCHANGED <<nexiaVars, storageVars>>

\* return await ...: the coroutine resumes once the job has finished and
\* returns what the job returned, or re-raises what it raised.
AsyncUpdateDataResume ==
    /\ pollPc = "awaiting"
    /\ jobPc = "finished"
    /\ pollOutcome' = jobOutcome
    /\ pollPc' = "done"
    /\ UNCHANGED <<zones, jobPc, jobThread, zi, data, calls, jobOutcome>>
    /\ UNCHANGED <<nexiaVars, storageVars>>

NextPoll ==
    \/ AsyncUpdateData
    \/ UpdateAllZonesBegin
    \/ ZoneQuery
    \/ UpdateAllZonesReturn
    \/ AsyncUpdateDataResume

--------------------------------------------------------------------------
\* nexia: NexiaEntity, NexiaThermostatEntity, NexiaThermostatZoneEntity

MaxEntities == 3   \* entity objects the platforms may construct

EntityIds == 1..MaxEntities

\* The vendor's home: thermostats, their zones (zone.thermostat) and the
\* display names get_name() answers.  Zone ids and thermostat ids overlap.
ThermostatIds == {1, 2}
NexiaZoneIds == {1, 2, 3}
ZoneThermostat == (1 :> 2) @@ (2 :> 1) @@ (3 :> 2)
ThermostatGetName == (1 :> "Main Floor") @@ (2 :> "Annex")
ZoneGetName == (1 :> "Den") @@ (2 :> "Upstairs") @@ (3 :> "Hall")

\* Names and unique ids the platforms pass to the constructors.
Names == {"Den", "Den Temperature"}
UniqueIds == {"uid_a", "uid_b"}

\* from .const import SIGNAL_THERMOSTAT_UPDATE, SIGNAL_ZONE_UPDATE
SIGNAL_THERMOSTAT_UPDATE == "nexia_thermostat_update"
SIGNAL_ZONE_UPDATE == "nexia_zone_update"

\* f"{PREFIX}-{id}": the prefix and the id determine the string and, the
\* prefixes containing no "-", the string determines both.
ThermostatSignal(thermostat_id) == <<SIGNAL_THERMOSTAT_UPDATE, thermostat_id>>
ZoneSignal(zone_id) == <<SIGNAL_ZONE_UPDATE, zone_id>>

NoEntity == [state |-> "none", kind |-> "none", _thermostat |-> None, _zone |-> None,
             _name |-> "", _unique_id |-> ""]
NoArgs == [name |-> "", unique_id |-> ""]
NoSignal == [method |-> "none", by |-> None, signal |-> <<>>]

InitNexia ==
    /\ ent = [e \in EntityIds |-> NoEntity]
    /\ ctorArgs = [e \in EntityIds |-> NoArgs]
    /\ connections = {}
    /\ sent = NoSignal
    /\ written = {}

\* Variant: the two arguments are stored in each other's field.
NexiaEntityInit_Swapped(name, unique_id) ==
    [NoEntity EXCEPT !.state = "constructed", !._name = unique_id, !._unique_id = name]

\* NexiaEntity.__init__: self._unique_id = unique_id; self._name = name
NexiaEntityInit(name, unique_id) ==
    [NoEntity EXCEPT !.state = "constructed", !._name = name, !._unique_id = unique_id]

\* NexiaThermostatEntity.__init__: super().__init__(coordinator, name, unique_id);
\* self._thermostat = thermostat
NexiaThermostatEntityInit(thermostat, name, unique_id) ==
    [NexiaEntityInit(name, unique_id) EXCEPT !.kind = "thermostat", !._thermostat = thermostat]

\* NexiaThermostatZoneEntity.__init__:
\* super().__init__(coordinator, zone.thermostat, name, unique_id); self._zone = zone
NexiaThermostatZoneEntityInit(zone, name, unique_id) ==
    [NexiaThermostatEntityInit(ZoneThermostat[zone], name, unique_id)
        EXCEPT !.kind = "zone", !._zone = zone]

\* NexiaEntity.name, NexiaEntity.unique_id
name(e) == ent[e]._name
unique_id(e) == ent[e]._unique_id

\* NexiaThermostatEntity.device_info (the fields that depend on the entity)
ThermostatDeviceInfo(e) ==
    [identifiers |-> ent[e]._thermostat,
     name |-> ThermostatGetName[ent[e]._thermostat],
     suggested_area |-> "",
     via_device |-> None]

\* NexiaThermostatZoneEntity.device_info: data = super().device_info; data.update(...)
ZoneDeviceInfo(e) ==
    LET zone_name == ZoneGetName[ent[e]._zone] IN
    [ThermostatDeviceInfo(e) EXCEPT
        !.identifiers = ent[e]._zone,
        !.name = zone_name,
        !.suggested_area = zone_name,
        !.via_device = ZoneThermostat[ent[e]._zone]]

device_info(e) == IF ent[e].kind = "zone" THEN ZoneDeviceInfo(e) ELSE ThermostatDeviceInfo(e)

\* A platform constructs a thermostat-level entity.
ConstructThermostatEntity(e, thermostat, n, u) ==
    /\ ent[e].state = "none"
    /\ ent' = [ent EXCEPT ![e] = NexiaThermostatEntityInit(thermostat, n, u)]
    /\ ctorArgs' = [ctorArgs EXCEPT ![e] = [name |-> n, unique_id |-> u]]
    /\ sent' = NoSignal
    /\ written' = {}
    /\ UNCHANGED <<connections, pollVars, storageVars>>

\* A platform constructs a zone-level entity.
ConstructZoneEntity(e, zone, n, u) ==
    /\ ent[e].state = "none"
    /\ ent' = [ent EXCEPT ![e] = NexiaThermostatZoneEntityInit(zone, n, u)]
    /\ ctorArgs' = [ctorArgs EXCEPT ![e] = [name |-> n, unique_id |-> u]]
    /\ sent' = NoSignal
    /\ written' = {}
    /\ UNCHANGED <<connections, pollVars, storageVars>>

\* async_dispatcher_connect(hass, signal, target): target is called for
\* every later send of signal, until the returned disconnect is called.
async_dispatcher_connect(conns, signal, e) == conns \cup {<<signal, e>>}

\* async_dispatcher_send(hass, signal): the targets connected to signal at
\* the time of the send are the ones called.
async_dispatcher_send(conns, signal) == {c[2] : c \in {d \in conns : d[1] = signal}}

\* NexiaThermostatEntity.async_added_to_hass
ThermostatAddedToHass(conns, e) ==
    async_dispatcher_connect(conns, ThermostatSignal(ent[e]._thermostat), e)

\* Variant: super().async_added_to_hass() is not called.
ZoneAddedToHass_NoSuper(conns, e) ==
    async_dispatcher_connect(conns, ZoneSignal(ent[e]._zone), e)

\* NexiaThermostatZoneEntity.async_added_to_hass: super's, then the zone signal
ZoneAddedToHass(conns, e) ==
    async_dispatcher_connect(ThermostatAddedToHass(conns, e), ZoneSignal(ent[e]._zone), e)

\* The host adds a constructed entity: async_added_to_hass runs (the method
\* of the entity's class) with self.hass set.
AsyncAddedToHass(e) ==
    /\ ent[e].state = "constructed"
    /\ ent' = [ent EXCEPT ![e].state = "added"]
    /\ connections' = IF ent[e].kind = "zone"
                      THEN ZoneAddedToHass(connections, e)
                      ELSE ThermostatAddedToHass(connections, e)
    /\ sent' = NoSignal
    /\ written' = {}
    /\ UNCHANGED <<ctorArgs, pollVars, storageVars>>

\* The host removes an added entity: every callback registered through
\* async_on_remove runs, which disconnects the entity's dispatcher targets.
AsyncRemove(e) ==
    /\ ent[e].state = "added"
    /\ ent' = [ent EXCEPT ![e].state = "removed"]
    /\ connections' = {c \in connections : c[2] # e}
    /\ sent' = NoSignal
    /\ written' = {}
    /\ UNCHANGED <<ctorArgs, pollVars, storageVars>>

\* The signal _signal_thermostat_update sends.
ThermostatUpdateSignal(e) == ThermostatSignal(ent[e]._thermostat)

\* NexiaThermostatEntity._signal_thermostat_update, called on an entity
\* that has a hass (it was added; removal leaves self.hass in place).
SignalThermostatUpdate(e) ==
    /\ ent[e].state \in {"added", "removed"}
    /\ sent' = [method |-> "thermostat", by |-> e, signal |-> ThermostatUpdateSignal(e)]
    /\ written' = async_dispatcher_send(connections, ThermostatUpdateSignal(e))
    /\ UNCHANGED <<ent, ctorArgs, connections, pollVars, storageVars>>

\* Variant: the zone method sends the thermostat's signal.
ZoneUpdateSignal_Thermostat(e) == ThermostatSignal(ent[e]._thermostat)

\* The signal _signal_zone_update sends.
ZoneUpdateSignal(e) == ZoneSignal(ent[e]._zone)

\* NexiaThermostatZoneEntity._signal_zone_update
SignalZoneUpdate(e) ==
    /\ ent[e].state \in {"added", "removed"}
    /\ ent[e].kind = "zone"
    /\ sent' = [method |-> "zone", by |-> e, signal |-> ZoneUpdateSignal(e)]
    /\ written' = async_dispatcher_send(connections, ZoneUpdateSignal(e))
    /\ UNCHANGED <<ent, ctorArgs, connections, pollVars, storageVars>>

\* Entities as the climate platform names them: the handle's display name.
NextNexia ==
    \/ \E e \in EntityIds, t \in ThermostatIds :
         ConstructThermostatEntity(e, t, ThermostatGetName[t], "uid_a")
    \/ \E e \in EntityIds, z \in NexiaZoneIds :
         ConstructZoneEntity(e, z, ZoneGetName[z], "uid_a")
    \/ \E e \in EntityIds : AsyncAddedToHass(e)
    \/ \E e \in EntityIds : AsyncRemove(e)
    \/ \E e \in EntityIds : SignalThermostatUpdate(e)
    \/ \E e \in EntityIds : SignalZoneUpdate(e)

\* Construction with any name and unique id, and reads of the properties.
NextNexiaProps ==
    \/ \E e \in EntityIds, t \in ThermostatIds, n \in Names, u \in UniqueIds :
         ConstructThermostatEntity(e, t, n, u)
    \/ \E e \in EntityIds, z \in NexiaZoneIds, n \in Names, u \in UniqueIds :
         ConstructZoneEntity(e, z, n, u)

--------------------------------------------------------------------------
\* tests/components/google/conftest.py: FakeStorage

MaxPuts == 3       \* put() calls followed
NumCreds == 3      \* distinct Credentials objects

Credentials == 1..NumCreds

\* FakeStorage.__init__: self._creds = None
InitStorage ==
    /\ creds = None
    /\ puts = <<>>
    /\ lastOp = "init"
    /\ got = None

\* Variant: get() hands the credentials out and empties the slot.
Get_Consuming ==
    /\ got' = creds
    /\ creds' = None
    /\ lastOp' = "get"
    /\ UNCHANGED <<puts, pollVars, nexiaVars>>

\* FakeStorage.get: return self._creds
Get ==
    /\ got' = creds
    /\ lastOp' = "get"
    /\ UNCHANGED <<creds, puts, pollVars, nexiaVars>>

\* FakeStorage.put: self._creds = creds (mock_token_read: storage.put(creds))
Put(c) ==
    /\ Len(puts) < MaxPuts
    /\ creds' = c
    /\ puts' = Append(puts, c)
    /\ lastOp' = "put"
    /\ UNCHANGED <<got, pollVars, nexiaVars>>

NextStorage ==
    \/ Get
    \/ \E c \in Credentials : Put(c)

--------------------------------------------------------------------------
\* Specifications

InitSpecPoll == InitPoll /\ InitNexia /\ InitStorage
InitIdle == PollConstructed(<<>>) /\ InitNexia /\ InitStorage

SpecPoll == InitSpecPoll /\ [][NextPoll]_vars
SpecNexia == InitIdle /\ [][NextNexia]_vars
SpecNexiaProps == InitIdle /\ [][NextNexiaProps]_vars
SpecStorage == InitIdle /\ [][NextStorage]_vars

--------------------------------------------------------------------------
\* Properties of the ws66i poll (checked under SpecPoll)

Last(q) == q[Len(q)]
SomeNone(q) == \E k \in 1..Len(q) : q[k].ret = None
Rets(q) == [k \in 1..Len(q) |-> q[k].ret]

\* C1: whenever zone_status returned None for a queried zone, the poll ends
\* by raising UpdateFailed: after a None answer _update_all_zones has
\* finished with UpdateFailed (and the awaited poll ends the same way), and
\* a returned list comes from a poll without a None answer and holds no None.
C1_NoDataRaisesUpdateFailed ==
    /\ SomeNone(calls) =>
          /\ jobPc = "finished"
          /\ jobOutcome.kind = "raised"
          /\ pollPc = "done" => pollOutcome.kind = "raised"
    /\ jobOutcome.kind = "returned" =>
          /\ ~SomeNone(calls)
          /\ \A i \in 1..Len(jobOutcome.data) : jobOutcome.data[i] # None

\* C1 witness: a poll that had already collected a status ended with
\* UpdateFailed on a later None answer.
C1_Witness ==
    /\ jobOutcome.kind = "raised"
    /\ Len(calls) >= 2
    /\ data # <<>>
    /\ Last(calls).ret = None

\* C2: when no queried zone answered None, the finished poll returned a
\* list with one status per configured entry, in the configured order:
\* len(result) = len(zones) and result[i] is the answer to the query for
\* zones[i]; the empty zone list returns the empty list.
C2_OneStatusPerZoneInOrder ==
    /\ (jobPc = "finished" /\ ~SomeNone(calls)) => jobOutcome.kind = "returned"
    /\ jobOutcome.kind = "returned" =>
          /\ Len(jobOutcome.data) = Len(zones)
          /\ Len(calls) = Len(zones)
          /\ \A i \in 1..Len(zones) :
                /\ calls[i].zone = zones[i]
                /\ jobOutcome.data[i] = calls[i].ret

\* C2 witness: a returned list for a zone list that repeats an id, whose
\* two queries were answered differently.
C2_Witness ==
    /\ jobOutcome.kind = "returned"
    /\ Len(zones) >= 3
    /\ zones[1] = zones[3]
    /\ zones[1] # zones[2]
    /\ jobOutcome.data[1] # jobOutcome.data[3]

\* C6: every zone_status call of a poll is made on the executor job's
\* thread, never on the event loop; the awaited poll is done only once the
\* job has finished, and its outcome is the job's outcome: the list
\* _update_all_zones returned or the UpdateFailed it raised.
C6_PollRunsInExecutorAndYieldsJobOutcome ==
    /\ \A k \in 1..Len(calls) : calls[k].thread # EventLoopThread
    /\ pollPc # "done" => pollOutcome = NoOutcome
    /\ pollPc = "done" =>
          /\ jobPc = "finished"
          /\ pollOutcome = jobOutcome
          /\ \/ pollOutcome = Returned(Rets(calls)) /\ ~SomeNone(calls)
             \/ calls # <<>> /\ Last(calls).ret = None
                             /\ pollOutcome = UpdateFailed(Last(calls).zone)

\* C6 witness: an awaited poll that ended with the UpdateFailed raised in
\* the executor job after two vendor calls.
C6_Witness ==
    /\ pollPc = "done"
    /\ pollOutcome.kind = "raised"
    /\ Len(calls) = 2
    /\ \A k \in 1..Len(calls) : calls[k].thread = async_add_executor_job

\* C7: within one poll the zones are queried one at a time in configured
\* order, each configured entry at most once; only the last query made can
\* have answered None (nothing is queried after the first None), and the
\* UpdateFailed raised names the zone of that query.
C7_QueriesInOrderStopAtFirstNone ==
    /\ Len(calls) <= Len(zones)
    /\ \A k \in 1..Len(calls) : calls[k].zone = zones[k]
    /\ \A k \in 1..(Len(calls) - 1) : calls[k].ret # None
    /\ jobPc = "running" => Len(calls) = zi - 1
    /\ jobOutcome.kind = "raised" =>
          /\ calls # <<>>
          /\ Last(calls).ret = None
          /\ jobOutcome.zone = zones[Len(calls)]

\* C7 witness: the second of three configured zones answered None, the
\* poll raised for it, and the third zone, a different id, was not queried.
C7_Witness ==
    /\ Len(zones) = 3
    /\ zones[3] # zones[2]
    /\ jobPc = "finished"
    /\ jobOutcome = UpdateFailed(zones[2])
    /\ Len(calls) = 2

--------------------------------------------------------------------------
\* Properties of the nexia entities

Added(e) == ent[e].state = "added"

\* C3 as stated: a zone entity's name is its zone's display name.
C3_NameIsZoneDisplayName ==
    \A e \in EntityIds :
        ent[e].kind = "zone" => name(e) = ZoneGetName[ent[e]._zone]

\* C3, amended: a zone entity's name is the name argument it was
\* constructed with; it is the name (and suggested_area) of its device_info
\* that equals the zone's get_name().
C3_NameIsConstructorName ==
    \A e \in EntityIds :
        ent[e].kind = "zone" =>
            /\ name(e) = ctorArgs[e].name
            /\ device_info(e).name = ZoneGetName[ent[e]._zone]
            /\ device_info(e).suggested_area = ZoneGetName[ent[e]._zone]

\* C3 witness: a zone entity constructed with a name that is not its
\* zone's display name.
C3_Witness ==
    \E e \in EntityIds :
        /\ ent[e].kind = "zone"
        /\ ctorArgs[e].name # ZoneGetName[ent[e]._zone]
        /\ ctorArgs[e].name # ctorArgs[e].unique_id
        /\ device_info(e).name = ZoneGetName[ent[e]._zone]

\* C4: a thermostat update signalled by an entity of thermostat T writes
\* the state of every entity that is added (and not removed) and whose
\* thermostat is T, thermostat-level and zone-level alike, and of no other
\* entity.
C4_ThermostatSignalWritesWholeThermostat ==
    sent.method = "thermostat" =>
        written = {e \in EntityIds : Added(e) /\ ent[e]._thermostat = ent[sent.by]._thermostat}

\* C4 witness: a thermostat-level entity signalled; a zone entity of the
\* same thermostat was written, an added entity of another thermostat was not.
C4_Witness ==
    /\ sent.method = "thermostat"
    /\ ent[sent.by].kind = "thermostat"
    /\ \E b \in written : ent[b].kind = "zone"
    /\ \E c \in EntityIds \ written :
          Added(c) /\ ent[c]._thermostat # ent[sent.by]._thermostat

\* C5: a zone update signalled for zone Z writes only added entities of
\* zone Z: no thermostat-level entity and no entity of another zone (of the
\* same thermostat or not) is written.
C5_ZoneSignalWritesSingleZone ==
    sent.method = "zone" =>
        \A e \in written :
            /\ Added(e)
            /\ ent[e].kind = "zone"
            /\ ent[e]._zone = ent[sent.by]._zone

\* C5 witness: a zone entity signalled and was written, while an added
\* entity of another zone of the same thermostat and the added entity of
\* that thermostat itself were not.
C5_Witness ==
    /\ sent.method = "zone"
    /\ sent.by \in written
    /\ \E b \in EntityIds \ written :
          /\ Added(b) /\ ent[b].kind = "zone"
          /\ ent[b]._thermostat = ent[sent.by]._thermostat
    /\ \E c \in EntityIds \ written :
          /\ Added(c) /\ ent[c].kind = "thermostat"
          /\ ent[c]._thermostat = ent[sent.by]._thermostat

--------------------------------------------------------------------------
\* Properties of FakeStorage (checked under SpecStorage)

LastPut == IF puts = <<>> THEN None ELSE puts[Len(puts)]

\* C8: FakeStorage is a single-slot store: the slot holds None until the
\* first put and the most recent put's credentials afterwards, a get()
\* returns exactly that, and a get() leaves the slot as it was.
C8_SingleSlotStore ==
    /\ creds = LastPut
    /\ lastOp = "get" => got = LastPut

\* C8 witness: a get() after two puts of different credentials returned
\* the second.
C8_Witness ==
    /\ lastOp = "get"
    /\ Len(puts) >= 2
    /\ puts[Len(puts)] # puts[Len(puts) - 1]
    /\ got = puts[Len(puts)]
    /\ creds = got

====
